---- MODULE Spec2Model ----
(***************************************************************************)
(* BWF marker extractor: the XML-to-labels conversion of                   *)
(* src/services/marker-converter.ts and the upload handler of              *)
(* src/server.ts.                                                          *)
(*                                                                         *)
(* Text is a sequence of one-character strings, so that parsing and        *)
(* formatting are computed and not assumed.  A JavaScript number is an     *)
(* exact fraction n/d, NaN or Infinity: IEEE rounding is not modelled, the *)
(* special values are.                                                     *)
(***************************************************************************)
EXTENDS Integers, Sequences, FiniteSets, TLC

VARIABLES
    timeInput,    \* the argument handed to parseTimeToSeconds
    timeResult,   \* its outcome, or NotRun
    xml,          \* the XML text of one conversion, by what xml2js makes of it
    pc,           \* where the conversion stands
    markerList,   \* the markers array parseMarkersFromXml is filling
    strategy,     \* the structure (1..6) that pushed the markers, 0 for none
    discovered,   \* the markers in discovery order, as they were before the sort
    located,      \* the outcome of parseMarkersFromXml, or NotRun
    labels,       \* the outcome of formatAsAudacityLabels, or NotRun
    origName,     \* the originalFileName handed to convertXmlToLabels
    outputsDir,   \* the files of outputs/
    clock,        \* Date.now()
    toolInstalled, \* whether bwfmetaedit can be spawned
    uploadsDir,   \* the files of uploads/
    tempDir,      \* the files of temp/
    reqs          \* the /upload requests

convVars == <<xml, pc, markerList, strategy, discovered, located, labels,
              origName, outputsDir>>
timeVars == <<timeInput, timeResult>>
serverVars == <<clock, toolInstalled, uploadsDir, tempDir, reqs>>
\* What no step of a conversion changes.
aroundVars == <<timeInput, timeResult, origName, outputsDir, clock,
                toolInstalled, uploadsDir, tempDir, reqs>>
vars == <<timeInput, timeResult, xml, pc, markerList, strategy, discovered,
          located, labels, origName, outputsDir, clock, toolInstalled,
          uploadsDir, tempDir, reqs>>

NotRun == [threw |-> FALSE, run |-> FALSE]

(***************************************************************************)
(* Bounds.                                                                 *)
(***************************************************************************)
MaxTimeLen == 5

(***************************************************************************)
(* JavaScript values as xml2js produces them.                              *)
(***************************************************************************)
Undef == [t |-> "undefined"]
Null == [t |-> "null"]
Str(s) == [t |-> "string", s |-> s]
NumV(x) == [t |-> "number", v |-> x]
Arr(a) == [t |-> "array", items |-> a]
\* An object is its entries in insertion order, as Object.entries lists them.
Obj(e) == [t |-> "object", e |-> e]

IsStr(v) == v.t = "string"
IsArr(v) == v.t = "array"
IsObj(v) == v.t = "object"
Nullish(v) == v.t \in {"undefined", "null"}

(***************************************************************************)
(* Numbers.                                                                *)
(***************************************************************************)
RECURSIVE Gcd(_, _)
Gcd(a, b) == IF b = 0 THEN a ELSE Gcd(b, a % b)

NaN == [k |-> "nan", n |-> 0, d |-> 1]
Infinity == [k |-> "inf", n |-> 1, d |-> 1]
Frac(n, d) ==
    LET g == Gcd(n, d)
    IN  IF g = 0 THEN [k |-> "fin", n |-> 0, d |-> 1]
        ELSE [k |-> "fin", n |-> n \div g, d |-> d \div g]
Int2Num(i) == Frac(i, 1)
Zero == Int2Num(0)

IsNaN(x) == x.k = "nan"
IsFinite(x) == x.k = "fin"

NumAdd(x, y) ==
    IF IsNaN(x) \/ IsNaN(y) THEN NaN
    ELSE IF ~IsFinite(x) \/ ~IsFinite(y) THEN Infinity
    ELSE Frac(x.n * y.d + y.n * x.d, x.d * y.d)

NumMul(x, y) ==
    IF IsNaN(x) \/ IsNaN(y) THEN NaN
    ELSE IF ~IsFinite(x) \/ ~IsFinite(y)
         THEN (IF (IsFinite(x) /\ x.n = 0) \/ (IsFinite(y) /\ y.n = 0)
               THEN NaN ELSE Infinity)
    ELSE Frac(x.n * y.n, x.d * y.d)

\* x / y on non-negative numbers: n/0 is Infinity, 0/0 is NaN.
NumDiv(x, y) ==
    IF IsNaN(x) \/ IsNaN(y) THEN NaN
    ELSE IF ~IsFinite(x) THEN (IF IsFinite(y) THEN Infinity ELSE NaN)
    ELSE IF ~IsFinite(y) THEN Zero
    ELSE IF y.n = 0 THEN (IF x.n = 0 THEN NaN ELSE Infinity)
    ELSE Frac(x.n * y.d, x.d * y.n)

\* The sign of x - y as a sort comparator reads it: NaN counts as 0.
CompareSign(x, y) ==
    IF IsNaN(x) \/ IsNaN(y) THEN 0
    ELSE IF ~IsFinite(x) THEN (IF IsFinite(y) THEN 1 ELSE 0)
    ELSE IF ~IsFinite(y) THEN -1
    ELSE IF x.n * y.d < y.n * x.d THEN -1
    ELSE IF x.n * y.d > y.n * x.d THEN 1
    ELSE 0

\* Falsy numbers: 0 and NaN.
NumTruthy(x) == ~IsNaN(x) /\ ~(IsFinite(x) /\ x.n = 0)

(***************************************************************************)
(* Text.                                                                   *)
(***************************************************************************)
Digits == {"0", "1", "2", "3", "4", "5", "6", "7", "8", "9"}
WhiteSpace == {" ", "\t", "\n"}
IsDigit(c) == c \in Digits
DigitVal(c) ==
    CASE c = "0" -> 0 [] c = "1" -> 1 [] c = "2" -> 2 [] c = "3" -> 3
      [] c = "4" -> 4 [] c = "5" -> 5 [] c = "6" -> 6 [] c = "7" -> 7
      [] c = "8" -> 8 [] c = "9" -> 9
DigitChar(i) ==
    CASE i = 0 -> "0" [] i = 1 -> "1" [] i = 2 -> "2" [] i = 3 -> "3"
      [] i = 4 -> "4" [] i = 5 -> "5" [] i = 6 -> "6" [] i = 7 -> "7"
      [] i = 8 -> "8" [] i = 9 -> "9"

RECURSIVE Pow10(_)
Pow10(k) == IF k = 0 THEN 1 ELSE 10 * Pow10(k - 1)

\* The number of digits of s from position p on.
RECURSIVE DigitRun(_, _)
DigitRun(s, p) ==
    IF p <= Len(s) /\ IsDigit(s[p]) THEN 1 + DigitRun(s, p + 1) ELSE 0

\* The number of white space characters of s from position p on.
RECURSIVE SpaceRun(_, _)
SpaceRun(s, p) ==
    IF p <= Len(s) /\ s[p] \in WhiteSpace THEN 1 + SpaceRun(s, p + 1) ELSE 0

\* The value of the digits s[p .. p+k-1].
RECURSIVE DecVal(_, _, _)
DecVal(s, p, k) ==
    IF k = 0 THEN 0 ELSE 10 * DecVal(s, p, k - 1) + DigitVal(s[p + k - 1])

\* parseFloat: leading white space is skipped and the longest prefix that is
\* a decimal literal is read; NaN when there is none.  Signs, exponents and
\* the word Infinity are outside the alphabet of the texts modelled.
parseFloat(s) ==
    LET p == 1 + SpaceRun(s, 1)
        i == DigitRun(s, p)
        dot == p + i <= Len(s) /\ s[p + i] = "."
        f == IF dot THEN DigitRun(s, p + i + 1) ELSE 0
    IN  IF i + f = 0 THEN NaN
        ELSE NumAdd(Int2Num(DecVal(s, p, i)),
                    Frac(DecVal(s, p + i + 1, f), Pow10(f)))

\* /^\d+\.?\d*$/
IsSimpleNumber(s) ==
    LET i == DigitRun(s, 1)
        dot == i + 1 <= Len(s) /\ s[i + 1] = "."
        q == IF dot THEN i + 2 ELSE i + 1
    IN  i >= 1 /\ q + DigitRun(s, q) = Len(s) + 1

Includes(s, c) == \E i \in 1..Len(s) : s[i] = c

\* s.split(sep) for a one-character separator.
RECURSIVE Split(_, _)
Split(s, sep) ==
    IF ~Includes(s, sep) THEN <<s>>
    ELSE LET i == CHOOSE j \in 1..Len(s) :
                      s[j] = sep /\ \A m \in 1..(j - 1) : s[m] # sep
         IN  <<SubSeq(s, 1, i - 1)>> \o Split(SubSeq(s, i + 1, Len(s)), sep)

(***************************************************************************)
(* parseTimeToSeconds.  An outcome is a value or a raised TypeError.       *)
(***************************************************************************)
Returned(x) == [threw |-> FALSE, run |-> TRUE, val |-> x]
Threw == [threw |-> TRUE, run |-> TRUE]

\* ColonSeconds with the hours weighted like minutes.
ColonSecondsHoursAsMinutes(s) ==
    LET parts == Split(s, ":")
    IN  IF Len(parts) = 3
        THEN NumAdd(NumAdd(NumAdd(Zero,
                 NumMul(parseFloat(parts[1]), Int2Num(60))),
                 NumMul(parseFloat(parts[2]), Int2Num(60))),
                 parseFloat(parts[3]))
        ELSE IF Len(parts) = 2
        THEN NumAdd(NumAdd(Zero,
                 NumMul(parseFloat(parts[1]), Int2Num(60))),
                 parseFloat(parts[2]))
        ELSE Zero

ColonSeconds(s) ==
    LET parts == Split(s, ":")
    IN  IF Len(parts) = 3
        THEN NumAdd(NumAdd(NumAdd(Zero,
                 NumMul(parseFloat(parts[1]), Int2Num(3600))),
                 NumMul(parseFloat(parts[2]), Int2Num(60))),
                 parseFloat(parts[3]))
        ELSE IF Len(parts) = 2
        THEN NumAdd(NumAdd(Zero,
                 NumMul(parseFloat(parts[1]), Int2Num(60))),
                 parseFloat(parts[2]))
        ELSE Zero

DefaultSeconds(s) ==
    LET x == parseFloat(s) IN IF NumTruthy(x) THEN x ELSE Zero

parseTimeToSeconds(v) ==
    IF v.t = "number" THEN Returned(v.v)
    \* the pattern is tested on String(v); only a string has .includes
    ELSE IF ~IsStr(v) THEN Threw
    ELSE IF IsSimpleNumber(v.s) THEN Returned(parseFloat(v.s))
    ELSE IF Includes(v.s, ":") THEN Returned(ColonSeconds(v.s))
    ELSE Returned(DefaultSeconds(v.s))

(***************************************************************************)
(* Property access, truthiness and the operators || and &&.                *)
(***************************************************************************)
HasOwn(v, k) == IsObj(v) /\ \E i \in 1..Len(v.e) : v.e[i][1] = k

\* v.k on a value that is neither null nor undefined.
Get(v, k) ==
    IF HasOwn(v, k)
    THEN v.e[CHOOSE i \in 1..Len(v.e) : v.e[i][1] = k][2]
    ELSE Undef

\* v[0]
First(v) ==
    IF IsArr(v) /\ Len(v.items) >= 1 THEN v.items[1]
    ELSE IF IsStr(v) /\ Len(v.s) >= 1 THEN Str(<<v.s[1]>>)
    ELSE Undef

\* v?.k and v?.[0]
OptGet(v, k) == IF Nullish(v) THEN Undef ELSE Get(v, k)
OptFirst(v) == IF Nullish(v) THEN Undef ELSE First(v)

Truthy(v) ==
    CASE v.t = "undefined" -> FALSE
      [] v.t = "null" -> FALSE
      [] v.t = "string" -> Len(v.s) >= 1
      [] v.t = "number" -> NumTruthy(v.v)
      [] OTHER -> TRUE

Or(a, b) == IF Truthy(a) THEN a ELSE b
And(a, b) == IF Truthy(a) THEN b ELSE a

\* The items a for...of loop visits; xml2js keeps child elements in arrays.
ItemsOf(v) == IF IsArr(v) THEN v.items ELSE <<>>
\* Array.isArray(v) ? v : [v]
AsArray(v) == IF IsArr(v) THEN v ELSE Arr(<<v>>)

ObjectObjectText ==
    <<"[", "o", "b", "j", "e", "c", "t", " ", "O", "b", "j", "e", "c", "t", "]">>

\* String(v) of a string or of a plain object.
ToText(v) == IF IsStr(v) THEN v.s ELSE ObjectObjectText

RECURSIVE NatText(_)
NatText(n) ==
    IF n < 10 THEN <<DigitChar(n)>>
    ELSE Append(NatText(n \div 10), DigitChar(n % 10))

\* The placeholder numbered from zero.
PlaceholderFromZero(n) ==
    Str(<<"M", "a", "r", "k", "e", "r", " ">> \o NatText(n - 1))

\* `Marker ${n}`
Placeholder(n) == Str(<<"M", "a", "r", "k", "e", "r", " ">> \o NatText(n))

(***************************************************************************)
(* The structures of parseMarkersFromXml.  The state of the function is    *)
(* the marker list so far, or a raised error.                              *)
(***************************************************************************)
Ok(markers) == [threw |-> FALSE, markers |-> markers]
Raised == [threw |-> TRUE, markers |-> <<>>]

Marker(time, label) == [time |-> time, label |-> label]

\* Push a marker whose time is the outcome of parseTimeToSeconds.
PushParsed(markers, parsed, label) ==
    IF parsed.threw THEN Raised
    ELSE Ok(Append(markers, Marker(parsed.val, label)))

\* A for...of loop: the body named by loop runs on each item in turn, and a
\* raised error ends it.  ctx is what the body reads beside the item.
RECURSIVE ForEach(_, _, _, _, _)

\* Structure 1: conformance_point_document
Point1(point, markers) ==
    LET attrs == Get(point, "$")
    IN  IF Truthy(OptGet(attrs, "time")) /\ Truthy(OptGet(attrs, "marker"))
        THEN PushParsed(markers, parseTimeToSeconds(Get(attrs, "time")),
                 Or(Get(attrs, "marker"),
                    Or(Get(attrs, "name"), Placeholder(Len(markers) + 1))))
        ELSE Ok(markers)

Found1(result) ==
    OptGet(OptFirst(OptGet(Get(result, "conformance_point_document"),
                           "conformance_point_list")),
           "conformance_point")

Structure1(result, markers) ==
    IF Truthy(Found1(result))
    THEN ForEach("point1", Undef, ItemsOf(Found1(result)), 1, Ok(markers))
    ELSE Ok(markers)

\* Structure 2: BWF_data
Marker2(marker, markers) ==
    IF Truthy(Get(marker, "position")) /\ Truthy(First(Get(marker, "position")))
    THEN PushParsed(markers,
             parseTimeToSeconds(First(Get(marker, "position"))),
             Or(OptFirst(Get(marker, "name")),
                Or(OptFirst(Get(marker, "label")),
                   Placeholder(Len(markers) + 1))))
    ELSE Ok(markers)

Found2(result) ==
    OptGet(OptFirst(OptGet(Get(result, "BWF_data"), "markers")), "marker")

Body2(result, markers) ==
    ForEach("marker2", Undef, ItemsOf(Found2(result)), 1, Ok(markers))

Structure2(result, markers) ==
    IF Len(markers) = 0 /\ Truthy(Found2(result))
    THEN Body2(result, markers)
    ELSE Ok(markers)

\* Structure 3: direct markers array
Inner3(m, markers) ==
    LET attrs == Get(m, "$")
    IN  IF Truthy(attrs)
           /\ (Truthy(Get(attrs, "position")) \/ Truthy(Get(attrs, "time")))
        THEN PushParsed(markers,
                 parseTimeToSeconds(Or(Get(attrs, "position"),
                     Or(Get(attrs, "time"), Str(<<"0">>)))),
                 Or(Get(attrs, "name"),
                    Or(Get(attrs, "label"),
                       Or(Get(attrs, "marker"),
                          Placeholder(Len(markers) + 1)))))
        ELSE Ok(markers)

\* the inner loop over markerList
RECURSIVE ForEachInner3(_, _, _)
ForEachInner3(items, i, acc) ==
    IF acc.threw \/ i > Len(items) THEN acc
    ELSE ForEachInner3(items, i + 1, Inner3(items[i], acc.markers))

Marker3(marker, markers) ==
    IF Truthy(Get(marker, "marker"))
    THEN ForEachInner3(ItemsOf(AsArray(Get(marker, "marker"))), 1, Ok(markers))
    ELSE Ok(markers)

Body3(result, markers) ==
    ForEach("marker3", Undef, ItemsOf(AsArray(Get(result, "markers"))), 1,
            Ok(markers))

Structure3(result, markers) ==
    IF Len(markers) = 0 /\ Truthy(Get(result, "markers"))
    THEN Body3(result, markers)
    ELSE Ok(markers)

\* Structure 4: BWFMetaEdit Cues
Found4(result) ==
    OptFirst(OptGet(OptFirst(OptGet(Get(result, "conformance_point_document"),
                                    "File")),
                    "Cues"))

SampleRate(cues) ==
    parseFloat(ToText(Or(Get(Get(cues, "$"), "samplerate"),
                         Str(<<"4", "4", "1", "0", "0">>))))

Cue4(sampleRate, cue, markers) ==
    IF Truthy(Get(cue, "Position")) /\ Truthy(First(Get(cue, "Position")))
    THEN Ok(Append(markers,
             Marker(NumDiv(parseFloat(ToText(First(Get(cue, "Position")))),
                           sampleRate),
                    Or(And(Get(cue, "Label"), First(Get(cue, "Label"))),
                       Placeholder(Len(markers) + 1)))))
    ELSE Ok(markers)

Body4(result, markers) ==
    LET cues == Found4(result)
    IN  \* cues.$.samplerate: a Cues element without attributes has no $
        IF Nullish(Get(cues, "$")) THEN Raised
        ELSE ForEach("cue4", SampleRate(cues),
                     ItemsOf(AsArray(Get(cues, "Cue"))), 1, Ok(markers))

\* Structure 4 as it would be without the markers.length === 0 test.
Structure4Unguarded(result, markers) ==
    IF Truthy(OptGet(Found4(result), "Cue"))
    THEN Body4(result, markers)
    ELSE Ok(markers)

Structure4(result, markers) ==
    IF Len(markers) = 0 /\ Truthy(OptGet(Found4(result), "Cue"))
    THEN Body4(result, markers)
    ELSE Ok(markers)

\* Structure 5: generic BWFMetaEdit File
Cue5(cue, markers) ==
    LET attrs == Get(cue, "$")
    IN  IF Truthy(attrs) /\ Truthy(Get(attrs, "position"))
        THEN PushParsed(markers, parseTimeToSeconds(Get(attrs, "position")),
                 Or(Get(attrs, "label"),
                    Or(Get(attrs, "name"), Placeholder(Len(markers) + 1))))
        ELSE Ok(markers)

LoopBody(loop, ctx, item, markers) ==
    CASE loop = "point1" -> Point1(item, markers)
      [] loop = "marker2" -> Marker2(item, markers)
      [] loop = "marker3" -> Marker3(item, markers)
      [] loop = "cue4" -> Cue4(ctx, item, markers)
      [] loop = "cue5" -> Cue5(item, markers)

ForEach(loop, ctx, items, i, acc) ==
    IF acc.threw \/ i > Len(items) THEN acc
    ELSE ForEach(loop, ctx, items, i + 1,
                 LoopBody(loop, ctx, items[i], acc.markers))

Body5(result, markers) ==
    LET file == Get(Get(result, "conformance_point_document"), "File")
        fileData == IF IsArr(file) THEN First(file) ELSE file
        core == Get(fileData, "Core")
        hasBext == /\ Truthy(core)
                   /\ Truthy(First(core))
                   /\ Truthy(Get(First(core), "bext"))
                   /\ Truthy(First(Get(First(core), "bext")))
        bext == First(Get(First(core), "bext"))
        cuePoints == Or(Get(bext, "CuePoint"),
                        Or(Get(bext, "cue"), Get(bext, "markers")))
    IN  IF hasBext /\ Truthy(cuePoints)
        THEN ForEach("cue5", Undef, ItemsOf(AsArray(cuePoints)), 1, Ok(markers))
        ELSE Ok(markers)

Structure5(result, markers) ==
    IF Len(markers) = 0
       /\ Truthy(OptGet(Get(result, "conformance_point_document"), "File"))
    THEN Body5(result, markers)
    ELSE Ok(markers)

(***************************************************************************)
(* Structure 6: the generic search.                                        *)
(***************************************************************************)
timeProps == <<"time", "position", "offset", "sample", "frame">>
labelProps == <<"name", "label", "title", "text", "marker", "comment">>

\* typeof v === 'object' && v !== null
IsObjectLike(v) == IsObj(v) \/ IsArr(v)

\* obj.hasOwnProperty(prop) || (obj.$ && obj.$.hasOwnProperty(prop))
HasProp(obj, prop) ==
    HasOwn(obj, prop) \/ (Truthy(Get(obj, "$")) /\ HasOwn(Get(obj, "$"), prop))

isMarkerLike(obj) ==
    /\ IsObjectLike(obj)
    /\ \/ \E i \in 1..Len(timeProps) : HasProp(obj, timeProps[i])
       \/ \E i \in 1..Len(labelProps) : HasProp(obj, labelProps[i])

\* obj[prop] || (obj.$ && obj.$[prop]), an array replaced by its first item
PropValue(obj, prop) ==
    LET value == Or(Get(obj, prop),
                    And(Get(obj, "$"), OptGet(Get(obj, "$"), prop)))
    IN  IF IsArr(value) THEN First(value) ELSE value

NoTime == [found |-> FALSE]

RECURSIVE ExtractTimeFrom(_, _)
ExtractTimeFrom(obj, i) ==
    IF i > Len(timeProps) THEN NoTime
    ELSE LET value == PropValue(obj, timeProps[i])
         IN  \* xml2js yields no numbers: the value is a string or is passed over
             IF IsStr(value)
             THEN [found |-> TRUE, val |-> parseTimeToSeconds(value).val]
             ELSE ExtractTimeFrom(obj, i + 1)

extractTime(obj) == ExtractTimeFrom(obj, 1)

\* s.trim()
RECURSIVE TrimEnd(_)
TrimEnd(s) ==
    IF Len(s) >= 1 /\ s[Len(s)] \in WhiteSpace
    THEN TrimEnd(SubSeq(s, 1, Len(s) - 1))
    ELSE s
Trim(s) == TrimEnd(SubSeq(s, 1 + SpaceRun(s, 1), Len(s)))

RECURSIVE ExtractLabelFrom(_, _, _)
ExtractLabelFrom(obj, index, i) ==
    IF i > Len(labelProps) THEN Placeholder(index + 1)
    ELSE LET value == PropValue(obj, labelProps[i])
         IN  IF IsStr(value) /\ Len(Trim(value.s)) >= 1
             THEN Str(Trim(value.s))
             ELSE ExtractLabelFrom(obj, index, i + 1)

extractLabel(obj, index) == ExtractLabelFrom(obj, index, 1)

\* The values Object.entries lists: an object's, or an array's items.
EntryValues(obj) ==
    IF IsArr(obj) THEN obj.items
    ELSE [i \in 1..Len(obj.e) |-> obj.e[i][2]]

\* The marker-like test of one entry value, before the search descends.
Visit(value, markers) ==
    IF isMarkerLike(value) /\ extractTime(value).found
    THEN Append(markers,
                Marker(extractTime(value).val,
                       extractLabel(value, Len(markers))))
    ELSE markers

RECURSIVE searchForMarkersRecursively(_, _)
RECURSIVE SearchValues(_, _, _)
RECURSIVE SearchItems(_, _, _)

searchForMarkersRecursively(obj, markers) ==
    IF ~IsObjectLike(obj) THEN markers
    ELSE SearchValues(EntryValues(obj), 1, markers)

SearchValues(values, i, markers) ==
    IF i > Len(values) THEN markers
    ELSE LET value == values[i]
             visited == Visit(value, markers)
         IN  SearchValues(values, i + 1,
                 IF ~IsObjectLike(value) THEN markers
                 ELSE IF IsArr(value)
                      THEN SearchItems(value.items, 1, visited)
                      ELSE searchForMarkersRecursively(value, visited))

SearchItems(items, i, markers) ==
    IF i > Len(items) THEN markers
    ELSE SearchItems(items, i + 1,
                     searchForMarkersRecursively(items[i], markers))

Structure6(result, markers) ==
    IF Len(markers) = 0
    THEN Ok(searchForMarkersRecursively(result, markers))
    ELSE Ok(markers)

(***************************************************************************)
(* The structures run in order, one step each; see the conversion below.   *)
(***************************************************************************)
NoStrategy == 0

(***************************************************************************)
(* markers.sort((a, b) => a.time - b.time)                                 *)
(***************************************************************************)
\* Insert m after every marker that does not compare greater: a stable sort.
RECURSIVE InsertSorted(_, _)
InsertSorted(sorted, m) ==
    IF Len(sorted) = 0 THEN <<m>>
    ELSE IF CompareSign(sorted[Len(sorted)].time, m.time) <= 0
         THEN Append(sorted, m)
         ELSE Append(InsertSorted(SubSeq(sorted, 1, Len(sorted) - 1), m),
                     sorted[Len(sorted)])

RECURSIVE SortFrom(_, _, _)
SortFrom(markers, i, sorted) ==
    IF i > Len(markers) THEN sorted
    ELSE SortFrom(markers, i + 1, InsertSorted(sorted, markers[i]))

StableSort(markers) == SortFrom(markers, 1, <<>>)

\* The comparator orders the markers consistently unless a NaN time, which
\* compares equal to everything, sits among times that differ.
ConsistentComparator(markers) ==
    \/ \A i \in 1..Len(markers) : ~IsNaN(markers[i].time)
    \/ \A i, j \in 1..Len(markers) :
           CompareSign(markers[i].time, markers[j].time) = 0

Rearrangements(markers) ==
    {[i \in 1..Len(markers) |-> markers[p[i]]] :
        p \in {q \in [1..Len(markers) -> 1..Len(markers)] :
                  \A i, j \in 1..Len(markers) : i # j => q[i] # q[j]}}

\* With an inconsistent comparator the order is implementation-defined.
SortOutcomes(markers) ==
    IF ConsistentComparator(markers) THEN {StableSort(markers)}
    ELSE Rearrangements(markers)

(***************************************************************************)
(* formatAsAudacityLabels                                                  *)
(***************************************************************************)
FractionDigits == 6

RECURSIVE PadLeft(_, _)
PadLeft(s, width) == IF Len(s) >= width THEN s ELSE PadLeft(<<"0">> \o s, width)

\* x.toFixed(6): the nearest multiple of 10^-6, the larger of two equally
\* near; NaN and Infinity have no digits.
toFixed(x) ==
    IF IsNaN(x) THEN <<"N", "a", "N">>
    ELSE IF ~IsFinite(x) THEN <<"I", "n", "f", "i", "n", "i", "t", "y">>
    ELSE LET scale == Pow10(FractionDigits)
             units == (2 * x.n * scale + x.d) \div (2 * x.d)
         IN  NatText(units \div scale) \o <<".">>
                 \o PadLeft(NatText(units % scale), FractionDigits)

Line(marker) ==
    toFixed(marker.time) \o <<"\t">> \o toFixed(marker.time) \o <<"\t">>
        \o ToText(marker.label)

\* lines.join('\n')
RECURSIVE Join(_, _)
Join(lines, i) ==
    IF i > Len(lines) THEN <<>>
    ELSE IF i = Len(lines) THEN lines[i]
    ELSE lines[i] \o <<"\n">> \o Join(lines, i + 1)

formatAsAudacityLabels(markers) ==
    Join([i \in 1..Len(markers) |-> Line(markers[i])], 1) \o <<"\n">>

(***************************************************************************)
(* Documents: the trees xml2js builds (one root key; child elements in     *)
(* arrays; attributes in $; an element with neither is the empty string).  *)
(***************************************************************************)
MaxEntries == 2

Absent == <<"(absent)">>
Text5 == <<"5", ".", "0">>
Text10 == <<"0", "0", ":", "0", "0", ":", "1", "0", ".", "0", "0", "0">>
TextBad == <<"a", ":", "b">>
Text24000 == <<"2", "4", "0", "0", "0">>
Text48000 == <<"4", "8", "0", "0", "0">>
Text44100 == <<"4", "4", "1", "0", "0">>
Intro == <<"I", "n", "t", "r", "o">>
Outro == <<"B">>

\* What one marker entry of a document carries.
Entry(time, name) == [time |-> time, name |-> name]
Entries ==
    {Entry(Text5, n) : n \in {Intro, Outro, Absent}}
        \cup {Entry(t, Intro) : t \in {Text10, TextBad, Absent}}
        \cup {Entry(Absent, Absent)}
EntryLists == UNION {[1..n -> Entries] : n \in 0..MaxEntries}

RECURSIVE PresentFrom(_, _)
PresentFrom(pairs, i) ==
    IF i > Len(pairs) THEN <<>>
    ELSE (IF pairs[i][2] # Absent THEN <<pairs[i]>> ELSE <<>>)
             \o PresentFrom(pairs, i + 1)
Present(pairs) == PresentFrom(pairs, 1)

\* An element with the given attributes and no content.
AttrElem(pairs) ==
    LET a == Present(pairs)
    IN  IF a = <<>> THEN Str(<<>>)
        ELSE Obj(<< <<"$", Obj([i \in 1..Len(a) |-> <<a[i][1], Str(a[i][2])>>])>> >>)

\* An element with the given text-only child elements.
ChildElem(pairs) ==
    LET c == Present(pairs)
    IN  IF c = <<>> THEN Str(<<>>)
        ELSE Obj([i \in 1..Len(c) |-> <<c[i][1], Arr(<<Str(c[i][2])>>)>>])

\* An element whose children are the elements elems, all named child.
ListElem(child, elems) ==
    IF elems = <<>> THEN Str(<<>>) ELSE Obj(<< <<child, Arr(elems)>> >>)

Root(name, elem) == Obj(<< <<name, elem>> >>)

\* <conformance_point_list><conformance_point time= marker=/>...
PointList(es) ==
    << <<"conformance_point_list",
         Arr(<<ListElem("conformance_point",
                 [i \in 1..Len(es) |->
                     AttrElem(<< <<"time", es[i].time>>,
                                 <<"marker", es[i].name>> >>)])>>)>> >>

\* <Cues samplerate=><Cue><Position/><Label/></Cue>...
CuesAttrKinds == {"none", "samplerate", "other"}
CuesElem(kind, rate, es) ==
    Obj((CASE kind = "none" -> <<>>
           [] kind = "samplerate" ->
                << <<"$", Obj(<< <<"samplerate", Str(rate)>> >>)>> >>
           [] kind = "other" ->
                << <<"$", Obj(<< <<"count", Str(<<"1">>)>> >>)>> >>)
        \o << <<"Cue",
                Arr([i \in 1..Len(es) |->
                        ChildElem(<< <<"Position", es[i].time>>,
                                     <<"Label", es[i].name>> >>)])>> >>)

\* <Core><bext><CuePoint position= label=/>...
CoreEntry(es) ==
    << <<"Core",
         Arr(<<Obj(<< <<"bext",
             Arr(<<ListElem("CuePoint",
                     [i \in 1..Len(es) |->
                         AttrElem(<< <<"position", es[i].time>>,
                                     <<"label", es[i].name>> >>)])>>)>> >>)>>)>> >>

FileEntry(entries) == << <<"File", Arr(<<Obj(entries)>>)>> >>
ConfDoc(entries) == Root("conformance_point_document", Obj(entries))

OneCue == <<Entry(Text24000, Intro)>>
\* What else a conformance_point_document holds beside its main part.
FileParts ==
    {<<>>,
     FileEntry(<< <<"Cues", Arr(<<CuesElem("samplerate", Text48000, OneCue)>>)>> >>),
     FileEntry(<< <<"Cues", Arr(<<CuesElem("none", Text48000, OneCue)>>)>> >>),
     FileEntry(CoreEntry(<<Entry(Text5, Outro)>>))}

Docs1 == {ConfDoc(PointList(es) \o f) : es \in EntryLists, f \in FileParts}

\* <BWF_data><markers><marker><position/><name/></marker>...
Docs2 ==
    {Root("BWF_data",
          Obj(<< <<"markers",
                   Arr(<<ListElem("marker",
                           [i \in 1..Len(es) |->
                               ChildElem(<< <<"position", es[i].time>>,
                                            <<"name", es[i].name>> >>)])>>)>> >>))
        : es \in EntryLists}

\* <markers><marker position= name=/>...
Docs3 ==
    {Root("markers",
          ListElem("marker",
              [i \in 1..Len(es) |->
                  AttrElem(<< <<"position", es[i].time>>,
                              <<"name", es[i].name>> >>)]))
        : es \in EntryLists}

Docs4 ==
    {ConfDoc(FileEntry(<< <<"Cues", Arr(<<CuesElem(k, Text48000, es)>>)>> >> \o c))
        : es \in EntryLists \ {<<>>}, k \in CuesAttrKinds,
          c \in {<<>>, CoreEntry(<<Entry(Text5, Outro)>>)}}

Docs5 == {ConfDoc(FileEntry(CoreEntry(es))) : es \in EntryLists}

\* An unknown root whose entries carry attributes, or child elements.
DocsGenericAttr ==
    {Root("cuesheet",
          ListElem("cue",
              [i \in 1..Len(es) |->
                  AttrElem(<< <<"time", es[i].time>>,
                              <<"name", es[i].name>> >>)]))
        : es \in EntryLists}
DocsGenericChild ==
    {Root("cuesheet",
          ListElem("cue",
              [i \in 1..Len(es) |->
                  ChildElem(<< <<"time", es[i].time>>,
                               <<"name", es[i].name>> >>)]))
        : es \in EntryLists}

\* <BWF_data><markers><marker><position unit="s">5.0</position>...
DocNestedPosition ==
    Root("BWF_data",
         Obj(<< <<"markers",
                  Arr(<<Obj(<< <<"marker",
                      Arr(<<Obj(<< <<"position",
                          Arr(<<Obj(<< <<"_", Str(Text5)>>,
                                       <<"$", Obj(<< <<"unit", Str(<<"s">>)>> >>)>> >>)>>)>>,
                                   <<"name", Arr(<<Str(Intro)>>)>> >>)>>)>> >>)>>)>> >>))

\* <marker time="5.0" name="Intro"/> as the root element
DocRootMarker ==
    Root("marker", AttrElem(<< <<"time", Text5>>, <<"name", Intro>> >>))

\* The conformance points "00:00:10.000" named Intro and "5.0" unnamed.
DocTwoPoints ==
    ConfDoc(PointList(<<Entry(Text10, Intro), Entry(Text5, Absent)>>))

\* samplerate="48000" and a cue at sample 24000
DocCue24000 ==
    ConfDoc(FileEntry(<< <<"Cues",
        Arr(<<CuesElem("samplerate", Text48000,
                       <<Entry(Text24000, Absent)>>)>>)>> >>))
\* a cue at sample 44100 under a Cues element with no samplerate attribute
DocCueOtherAttr ==
    ConfDoc(FileEntry(<< <<"Cues",
        Arr(<<CuesElem("other", Text48000, <<Entry(Text44100, Absent)>>)>>)>> >>))
\* the same under a Cues element without attributes
DocCueNoAttrs ==
    ConfDoc(FileEntry(<< <<"Cues",
        Arr(<<CuesElem("none", Text48000, <<Entry(Text44100, Absent)>>)>>)>> >>))

Documents ==
    Docs1 \cup Docs2 \cup Docs3 \cup Docs4 \cup Docs5
        \cup DocsGenericAttr \cup DocsGenericChild
        \cup {DocNestedPosition, DocRootMarker, DocTwoPoints, DocCue24000,
              DocCueOtherAttr, DocCueNoAttrs,
              Root("root", Str(<<>>)), Root("root", Str(Intro))}

\* An XML text, by what parseXml does with it: it rejects a text that is not
\* well formed, resolves null for an empty text, and a tree otherwise.
Malformed == [parses |-> FALSE, result |-> Undef]
Parsed(result) == [parses |-> TRUE, result |-> result]
XmlTexts == {Malformed, Parsed(Null)} \cup {Parsed(d) : d \in Documents}

(***************************************************************************)
(* Files: a directory is a set of [path, content], one per path.           *)
(***************************************************************************)
ExistsSync(dir, path) == \E f \in dir : f.path = path
ReadFileSync(dir, path) == (CHOOSE f \in dir : f.path = path).content
WriteFileSync(dir, path, content) ==
    {f \in dir : f.path # path} \cup {[path |-> path, content |-> content]}
UnlinkSync(dir, path) == {f \in dir : f.path # path}

\* The place of the last c in s, 0 when there is none.
LastIndexOf(s, c) ==
    IF \E i \in 1..Len(s) : s[i] = c
    THEN CHOOSE i \in 1..Len(s) :
             s[i] = c /\ \A j \in (i + 1)..Len(s) : s[j] # c
    ELSE 0

\* path.basename(p)
Basename(p) == SubSeq(p, LastIndexOf(p, "/") + 1, Len(p))

\* path.extname(p): from the last dot on, unless the name starts with it.
Extname(p) ==
    IF LastIndexOf(Basename(p), ".") <= 1 THEN <<>>
    ELSE SubSeq(Basename(p), LastIndexOf(Basename(p), "."), Len(Basename(p)))

\* path.basename(originalFileName, path.extname(originalFileName))
baseName(originalFileName) ==
    SubSeq(Basename(originalFileName), 1,
           Len(Basename(originalFileName)) - Len(Extname(originalFileName)))

\* `${baseName}_markers.txt`
outputFileName(originalFileName) ==
    baseName(originalFileName)
        \o <<"_", "m", "a", "r", "k", "e", "r", "s", ".", "t", "x", "t">>

NameA == <<"a", ".", "w", "a", "v">>
NameUpper == <<"a", ".", "W", "A", "V">>
NameB == <<"b", ".", "w", "a", "v">>

\* A request that has not arrived.  xmlFile is the XML path of the file in
\* hand, xmlFiles the XML files bwfmetaedit has written for the request.
NoRequest ==
    [phase |-> "waiting", files |-> <<>>, idx |-> 1, results |-> <<>>,
     xmlFile |-> <<>>, xmlFiles |-> {}, toolError |-> "none"]

(***************************************************************************)
(* One conversion, convertXmlToLabels on the text of the XML file:         *)
(* parseMarkersFromXml structure by structure and then the sort,           *)
(* formatAsAudacityLabels, and the write of the output file.  pc is the    *)
(* next step.                                                              *)
(***************************************************************************)
TimeIdle ==
    /\ timeInput = Str(<<>>)
    /\ timeResult = NotRun

ServerIdle ==
    /\ clock = 0
    /\ toolInstalled = TRUE
    /\ uploadsDir = {}
    /\ tempDir = {}
    /\ reqs = <<>>

ConvStart(text) ==
    /\ xml = text
    /\ pc = "parse"
    /\ markerList = <<>>
    /\ strategy = NoStrategy
    /\ discovered = <<>>
    /\ located = NotRun
    /\ labels = NotRun
    /\ origName = NameA
    /\ outputsDir = {}

ConvInit ==
    /\ \E text \in XmlTexts : ConvStart(text)
    /\ TimeIdle
    /\ ServerIdle

\* The catch of parseMarkersFromXml: 'XML parsing failed: ...' is thrown.
Fail ==
    /\ pc' = "raised"
    /\ located' = Threw
    /\ UNCHANGED <<xml, markerList, strategy, discovered, labels>>

\* await parseXml(xmlContent)
ParseXml ==
    /\ pc = "parse"
    /\ IF xml.parses
       THEN /\ pc' = "structure1"
            /\ UNCHANGED <<xml, markerList, strategy, discovered, located, labels>>
       ELSE Fail
    /\ UNCHANGED aroundVars

\* The end of one structure's block: next is what the block made of markerList.
Advance(k, next, to) ==
    IF next.threw THEN Fail
    ELSE /\ markerList' = next.markers
         /\ strategy' = IF Len(next.markers) > Len(markerList)
                           /\ strategy = NoStrategy
                        THEN k ELSE strategy
         /\ pc' = to
         /\ UNCHANGED <<xml, discovered, located, labels>>

\* result.conformance_point_document on a null result raises.
TryStructure1 ==
    /\ pc = "structure1"
    /\ IF Nullish(xml.result) THEN Fail
       ELSE Advance(1, Structure1(xml.result, markerList), "structure2")
    /\ UNCHANGED aroundVars

TryStructure2 ==
    /\ pc = "structure2"
    /\ Advance(2, Structure2(xml.result, markerList), "structure3")
    /\ UNCHANGED aroundVars

TryStructure3 ==
    /\ pc = "structure3"
    /\ Advance(3, Structure3(xml.result, markerList), "structure4")
    /\ UNCHANGED aroundVars

TryStructure4 ==
    /\ pc = "structure4"
    /\ Advance(4, Structure4(xml.result, markerList), "structure5")
    /\ UNCHANGED aroundVars

TryStructure5 ==
    /\ pc = "structure5"
    /\ Advance(5, Structure5(xml.result, markerList), "structure6")
    /\ UNCHANGED aroundVars

TryStructure6 ==
    /\ pc = "structure6"
    /\ Advance(6, Structure6(xml.result, markerList), "sort")
    /\ UNCHANGED aroundVars

\* markerList.sort(...); return markerList
SortMarkers ==
    /\ pc = "sort"
    /\ \E sorted \in SortOutcomes(markerList) :
           /\ markerList' = sorted
           /\ located' = Returned(sorted)
    /\ discovered' = markerList
    /\ pc' = "format"
    /\ UNCHANGED <<xml, strategy, labels>>
    /\ UNCHANGED aroundVars

FormatAsAudacityLabels ==
    /\ pc = "format"
    /\ labels' = Returned(formatAsAudacityLabels(markerList))
    /\ pc' = "done"
    /\ UNCHANGED <<xml, markerList, strategy, discovered, located>>
    /\ UNCHANGED aroundVars

\* The rest of convertXmlToLabels: the labels go to outputs/<base>_markers.txt
\* and the path is returned.
WriteOutput ==
    /\ pc = "done"
    /\ outputsDir' = WriteFileSync(outputsDir, outputFileName(origName),
                                   labels.val)
    /\ pc' = "written"
    /\ UNCHANGED <<xml, markerList, strategy, discovered, located, labels,
                   origName>>
    /\ UNCHANGED <<timeVars, serverVars>>

\* The catch of convertXmlToLabels: 'Failed to convert XML to labels: ...'
RethrowConversion ==
    /\ pc = "raised"
    /\ pc' = "failed"
    /\ UNCHANGED <<xml, markerList, strategy, discovered, located, labels>>
    /\ UNCHANGED aroundVars

ConvNext ==
    \/ ParseXml
    \/ TryStructure1
    \/ TryStructure2
    \/ TryStructure3
    \/ TryStructure4
    \/ TryStructure5
    \/ TryStructure6
    \/ SortMarkers
    \/ FormatAsAudacityLabels
    \/ WriteOutput
    \/ RethrowConversion

SpecConvert == ConvInit /\ [][ConvNext]_vars

(***************************************************************************)
(* The time parser on its own: every text over TimeAlphabet of at most     *)
(* MaxTimeLen characters, a few numbers, and an element object.            *)
(***************************************************************************)
TimeAlphabet == {"0", "1", "2", ".", ":", "a"}

RECURSIVE TextsOfLen(_)
TextsOfLen(k) ==
    IF k = 0 THEN {<<>>}
    ELSE {Append(s, c) : s \in TextsOfLen(k - 1), c \in TimeAlphabet}

TimeTexts == UNION {TextsOfLen(k) : k \in 0..MaxTimeLen}

TimeInputs ==
    {Str(s) : s \in TimeTexts}
        \cup {NumV(Int2Num(0)), NumV(Frac(3, 2)), NumV(Int2Num(83)), NumV(NaN)}
        \cup {Obj(<< <<"_", Str(<<"5">>)>> >>)}

ConvIdle ==
    /\ xml = Malformed
    /\ pc = "idle"
    /\ markerList = <<>>
    /\ strategy = NoStrategy
    /\ discovered = <<>>
    /\ located = NotRun
    /\ labels = NotRun
    /\ origName = <<>>
    /\ outputsDir = {}

TimeInit ==
    /\ timeInput \in TimeInputs
    /\ timeResult = NotRun
    /\ ConvIdle
    /\ ServerIdle

ParseTime ==
    /\ ~timeResult.run
    /\ timeResult' = parseTimeToSeconds(timeInput)
    /\ UNCHANGED <<timeInput>>
    /\ UNCHANGED <<convVars, serverVars>>

TimeNext == ParseTime

SpecTime == TimeInit /\ [][TimeNext]_vars

(***************************************************************************)
(* The server: /upload requests, each a batch of stored WAV files handled  *)
(* one after the other.  Node runs one callback at a time, so a request    *)
(* gives way to another only while bwfmetaedit runs: from the tool's exit  *)
(* to the next file's spawn (the conversion included) nothing else of the  *)
(* server runs, and the other steps wait while pc is not "idle".           *)
(***************************************************************************)
MaxClock == 1
MaxFiles == 2
MaxRequests == 2

\* What bwfmetaedit makes of a WAV file: an XML file, nothing, or a failure.
ToolXml(text) == [kind |-> "xml", text |-> text]
ToolNoXml == [kind |-> "noxml", text |-> Malformed]
ToolFailed == [kind |-> "failed", text |-> Malformed]

WavFiles ==
    {[originalname |-> NameA, wav |-> ToolXml(Parsed(DocTwoPoints))],
     [originalname |-> NameUpper, wav |-> ToolXml(Parsed(DocCue24000))],
     [originalname |-> NameB, wav |-> ToolXml(Malformed)],
     [originalname |-> NameB, wav |-> ToolNoXml],
     [originalname |-> NameA, wav |-> ToolFailed]}

Batches == UNION {[1..n -> WavFiles] : n \in 1..MaxFiles}

\* `${timestamp}-${filename}` in uploads/
StoredName(timestamp, filename) == NatText(timestamp) \o <<"-">> \o filename

\* `${Date.now()}-metadata.xml` in temp/
xmlFileName(now) ==
    NatText(now) \o <<"-", "m", "e", "t", "a", "d", "a", "t", "a", ".", "x",
                      "m", "l">>

\* An error message, as the phrases it is made of.
MessageIncludes(message, phrase) == \E i \in 1..Len(message) : message[i] = phrase

ToolMessage(toolError) ==
    IF toolError = "enoent" THEN <<"spawn ", "bwfmetaedit", " ENOENT">>
    ELSE <<"Command failed", ": ", "bwfmetaedit", " --out-xml=...">>

\* The catch of extractBwfMetadata
extractBwfMetadataError(errorMessage) ==
    IF MessageIncludes(errorMessage, "File does not exist")
           \/ MessageIncludes(errorMessage, "No such file")
    THEN <<"FILE_NOT_FOUND">>
    ELSE IF MessageIncludes(errorMessage, "Command failed")
                \/ MessageIncludes(errorMessage, "bwfmetaedit")
    THEN <<"NO_BWF_DATA">>
    ELSE <<"PROCESSING_ERROR">>

\* What convertXmlToLabels throws
ConversionFailure ==
    <<"Failed to convert XML to labels", ": ", "XML parsing failed", ": ",
      "...">>

\* The switch of the handler's catch
userFriendlyMessage(errorMessage) ==
    CASE errorMessage = <<"NO_BWF_DATA">> ->
             "This file does not contain BWF markers"
      [] errorMessage = <<"FILE_NOT_FOUND">> ->
             "File could not be read (possibly due to special characters in filename)"
      [] errorMessage = <<"PROCESSING_ERROR">> ->
             "Could not process this file format"
      [] OTHER ->
             IF MessageIncludes(errorMessage, "NO_MARKERS_FOUND")
             THEN "This file does not contain any markers"
             ELSE IF MessageIncludes(errorMessage, "Failed to convert XML to labels")
             THEN "File processed but no markers were found"
             ELSE IF MessageIncludes(errorMessage, "XML parsing failed")
             THEN "File contains invalid BWF data"
             ELSE "Failed to process file"

\* The entries of results; content is the text written for a converted file.
Converted(originalFile, labelsFile, content) ==
    [originalFile |-> originalFile, ok |-> TRUE, labelsFile |-> labelsFile,
     error |-> "", content |-> content]
Errored(originalFile, error) ==
    [originalFile |-> originalFile, ok |-> FALSE, labelsFile |-> <<>>,
     error |-> error, content |-> <<>>]

CurrentFile(r) == reqs[r].files[reqs[r].idx]

Init ==
    /\ ConvIdle
    /\ TimeIdle
    /\ clock = 0
    /\ toolInstalled \in BOOLEAN
    /\ uploadsDir = {}
    /\ tempDir = {}
    /\ reqs = [r \in 1..MaxRequests |-> NoRequest]

RECURSIVE StoreAll(_, _, _, _)
StoreAll(dir, batch, stamps, i) ==
    IF i > Len(batch) THEN dir
    ELSE StoreAll(WriteFileSync(dir,
                                StoredName(stamps[i], batch[i].originalname),
                                batch[i].wav),
                  batch, stamps, i + 1)

\* multer stores the files of a request, each under the time of its storing.
Upload(r) ==
    /\ pc = "idle"
    /\ reqs[r].phase = "waiting"
    /\ \A q \in 1..(r - 1) : reqs[q].phase # "waiting"
    /\ \E batch \in Batches :
         \E stamps \in [1..Len(batch) -> clock..MaxClock] :
           /\ \A i \in 1..(Len(batch) - 1) : stamps[i] <= stamps[i + 1]
           /\ uploadsDir' = StoreAll(uploadsDir, batch, stamps, 1)
           /\ clock' = stamps[Len(batch)]
           /\ reqs' = [reqs EXCEPT ![r] =
                  [phase |-> "handling",
                   files |-> [i \in 1..Len(batch) |->
                       [originalname |-> batch[i].originalname,
                        path |-> StoredName(stamps[i], batch[i].originalname)]],
                   idx |-> 1, results |-> <<>>, xmlFile |-> <<>>,
                   xmlFiles |-> {}, toolError |-> "none"]]
    /\ UNCHANGED <<convVars, timeVars, toolInstalled, tempDir>>

\* extractBwfMetadata up to the spawn of bwfmetaedit
StartTool(r) ==
    /\ pc = "idle"
    /\ reqs[r].phase = "handling"
    /\ reqs' = [reqs EXCEPT ![r].phase = "tool",
                            ![r].xmlFile = xmlFileName(clock)]
    /\ UNCHANGED <<convVars, timeVars, clock, toolInstalled, uploadsDir, tempDir>>

ToolExit(r, toolError) ==
    reqs' = [reqs EXCEPT ![r].phase = "exited", ![r].toolError = toolError]

\* bwfmetaedit runs, beside the server.  What it does with an input file
\* that is gone is not in the sources: it fails or writes nothing.
ToolRun(r) ==
    /\ pc \in {"idle", "parse"}
    /\ reqs[r].phase = "tool"
    /\ IF ~toolInstalled
       THEN ToolExit(r, "enoent") /\ UNCHANGED tempDir
       ELSE IF ~ExistsSync(uploadsDir, CurrentFile(r).path)
       THEN /\ \E toolError \in {"failed", "none"} : ToolExit(r, toolError)
            /\ UNCHANGED tempDir
       ELSE CASE ReadFileSync(uploadsDir, CurrentFile(r).path).kind = "xml" ->
                     /\ tempDir' = WriteFileSync(tempDir, reqs[r].xmlFile,
                            ReadFileSync(uploadsDir, CurrentFile(r).path).text)
                     /\ reqs' = [reqs EXCEPT
                            ![r].phase = "exited",
                            ![r].toolError = "none",
                            ![r].xmlFiles = @ \cup {reqs[r].xmlFile}]
              [] ReadFileSync(uploadsDir, CurrentFile(r).path).kind = "noxml" ->
                     ToolExit(r, "none") /\ UNCHANGED tempDir
              [] OTHER ->
                     ToolExit(r, "failed") /\ UNCHANGED tempDir
    /\ UNCHANGED <<convVars, timeVars, clock, toolInstalled, uploadsDir>>

\* The end of one turn of the loop with the results so far:
\* unlinkSync(file.path), which the inner try does not cover, then the next
\* file or res.json.
NextFile(r, results) ==
    IF ~ExistsSync(uploadsDir, CurrentFile(r).path)
    THEN /\ reqs' = [reqs EXCEPT ![r].phase = "error500",
                                 ![r].results = results]
         /\ UNCHANGED uploadsDir
    ELSE /\ uploadsDir' = UnlinkSync(uploadsDir, CurrentFile(r).path)
         /\ reqs' = [reqs EXCEPT
                ![r].results = results,
                ![r].idx = IF reqs[r].idx = Len(reqs[r].files)
                           THEN reqs[r].idx ELSE reqs[r].idx + 1,
                ![r].phase = IF reqs[r].idx = Len(reqs[r].files)
                             THEN "responded" ELSE "handling"]

\* The callback of execFile: extractBwfMetadata ends, and convertXmlToLabels
\* reads the XML file.
AfterTool(r) ==
    /\ pc = "idle"
    /\ reqs[r].phase = "exited"
    /\ IF reqs[r].toolError # "none"
       THEN /\ NextFile(r, Append(reqs[r].results,
                   Errored(CurrentFile(r).originalname,
                       userFriendlyMessage(extractBwfMetadataError(
                           ToolMessage(reqs[r].toolError))))))
            /\ UNCHANGED convVars
       ELSE IF ~ExistsSync(tempDir, reqs[r].xmlFile)
       THEN /\ NextFile(r, Append(reqs[r].results,
                   Errored(CurrentFile(r).originalname,
                       userFriendlyMessage(extractBwfMetadataError(
                           <<"NO_BWF_DATA">>)))))
            /\ UNCHANGED convVars
       ELSE /\ xml' = ReadFileSync(tempDir, reqs[r].xmlFile)
            /\ pc' = "parse"
            /\ origName' = CurrentFile(r).originalname
            /\ reqs' = [reqs EXCEPT ![r].phase = "converting"]
            /\ UNCHANGED <<markerList, strategy, discovered, located, labels,
                           outputsDir, uploadsDir>>
    /\ UNCHANGED <<timeVars, clock, toolInstalled, tempDir>>

\* The conversion's variables are of no use once its outcome is recorded.
ConvReset ==
    /\ xml' = Malformed
    /\ pc' = "idle"
    /\ markerList' = <<>>
    /\ strategy' = NoStrategy
    /\ discovered' = <<>>
    /\ located' = NotRun
    /\ labels' = NotRun
    /\ origName' = <<>>

\* convertXmlToLabels returned: results.push, unlinkSync(xmlFile)
FileConverted(r) ==
    /\ pc = "written"
    /\ reqs[r].phase = "converting"
    /\ IF ExistsSync(tempDir, reqs[r].xmlFile)
       THEN /\ tempDir' = UnlinkSync(tempDir, reqs[r].xmlFile)
            /\ NextFile(r, Append(reqs[r].results,
                   Converted(CurrentFile(r).originalname,
                             outputFileName(origName), labels.val)))
       ELSE /\ UNCHANGED tempDir
            /\ NextFile(r, reqs[r].results
                   \o <<Converted(CurrentFile(r).originalname,
                                  outputFileName(origName), labels.val),
                        Errored(CurrentFile(r).originalname,
                                userFriendlyMessage(<<"ENOENT", ": ",
                                    "no such file or directory, unlink">>))>>)
    /\ ConvReset
    /\ UNCHANGED <<timeVars, outputsDir, clock, toolInstalled>>

\* convertXmlToLabels threw: the handler's catch
FileConversionFailed(r) ==
    /\ pc = "failed"
    /\ reqs[r].phase = "converting"
    /\ NextFile(r, Append(reqs[r].results,
           Errored(CurrentFile(r).originalname,
                   userFriendlyMessage(ConversionFailure))))
    /\ ConvReset
    /\ UNCHANGED <<timeVars, outputsDir, clock, toolInstalled, tempDir>>

\* A millisecond passes.
Tick ==
    /\ pc = "idle"
    /\ clock < MaxClock
    /\ \E r \in 1..MaxRequests : reqs[r].phase \in {"waiting", "handling"}
    /\ clock' = clock + 1
    /\ UNCHANGED <<convVars, timeVars, toolInstalled, uploadsDir, tempDir, reqs>>

Next ==
    \/ ConvNext
    \/ Tick
    \/ \E r \in 1..MaxRequests :
           \/ Upload(r)
           \/ StartTool(r)
           \/ ToolRun(r)
           \/ AfterTool(r)
           \/ FileConverted(r)
           \/ FileConversionFailed(r)

Spec == Init /\ [][Next]_vars

(***************************************************************************)
(* The notations of a time text, read off the text alone.                  *)
(***************************************************************************)
AllDigits(s) == Len(s) >= 1 /\ \A i \in 1..Len(s) : IsDigit(s[i])

\* Digits with an optional fractional part and no other character.
IsDecimalText(s) ==
    /\ \A i \in 1..Len(s) : IsDigit(s[i]) \/ s[i] = "."
    /\ Cardinality({i \in 1..Len(s) : s[i] = "."}) <= 1
    /\ \E i \in 1..Len(s) : IsDigit(s[i])

\* A 2- or 3-part colon time whose parts are all numeric.
IsColonTimeText(s) ==
    /\ Len(Split(s, ":")) \in {2, 3}
    /\ \A i \in 1..Len(Split(s, ":")) : IsDecimalText(Split(s, ":")[i])

IsMalformedTimeText(s) == ~IsDecimalText(s) /\ ~IsColonTimeText(s)

\* The value of a decimal text, digit by digit from the left.
RECURSIVE RefScan(_, _, _, _)
RefScan(s, i, n, d) ==
    IF i > Len(s) THEN Frac(n, IF d = 0 THEN 1 ELSE d)
    ELSE IF s[i] = "." THEN RefScan(s, i + 1, n, 1)
    ELSE RefScan(s, i + 1, 10 * n + DigitVal(s[i]), 10 * d)
RefDecimal(s) == RefScan(s, 1, 0, 0)
RefNat(s) == RefDecimal(s).n

\* C4: parseTimeToSeconds never raises, and every malformed time text (not a
\* plain decimal number, not a 2- or 3-part colon time with numeric parts)
\* yields exactly 0, never NaN or another value.
C4_MalformedTimeYieldsZero ==
    timeResult.run =>
        /\ ~timeResult.threw
        /\ (IsStr(timeInput) /\ IsMalformedTimeText(timeInput.s))
               => timeResult.val = Zero

\* C5: on the known notations the result is the reference value: "h:m:s"
\* gives h*3600+m*60+s and "m:s" gives m*60+s for integers with m, s below
\* 60, a plain decimal text gives its own value, a number is returned
\* unchanged.
C5_KnownNotations ==
    timeResult.run =>
        /\ timeInput.t = "number" =>
               ~timeResult.threw /\ timeResult.val = timeInput.v
        /\ (IsStr(timeInput) /\ IsDecimalText(timeInput.s)) =>
               ~timeResult.threw /\ timeResult.val = RefDecimal(timeInput.s)
        /\ IsStr(timeInput) =>
               LET parts == Split(timeInput.s, ":")
                   ints == \A i \in 1..Len(parts) : AllDigits(parts[i])
               IN  /\ (Len(parts) = 3 /\ ints /\ RefNat(parts[2]) < 60
                          /\ RefNat(parts[3]) < 60) =>
                         /\ ~timeResult.threw
                         /\ timeResult.val =
                                Int2Num(RefNat(parts[1]) * 3600
                                          + RefNat(parts[2]) * 60
                                          + RefNat(parts[3]))
                   /\ (Len(parts) = 2 /\ ints /\ RefNat(parts[1]) < 60
                          /\ RefNat(parts[2]) < 60) =>
                         /\ ~timeResult.threw
                         /\ timeResult.val =
                                Int2Num(RefNat(parts[1]) * 60
                                          + RefNat(parts[2]))

\* "1:2:1" has been parsed to 3721 seconds.
C5_Witness ==
    /\ timeInput = Str(<<"1", ":", "2", ":", "1">>)
    /\ timeResult.run
    /\ ~timeResult.threw
    /\ timeResult.val = Int2Num(3721)

(***************************************************************************)
(* What each structure finds in a document when it is the only one run.    *)
(***************************************************************************)
Alone(k, doc) ==
    CASE k = 1 -> Structure1(doc, <<>>)
      [] k = 2 -> Structure2(doc, <<>>)
      [] k = 3 -> Structure3(doc, <<>>)
      [] k = 4 -> Structure4(doc, <<>>)
      [] k = 5 -> Structure5(doc, <<>>)
      [] k = 6 -> Structure6(doc, <<>>)

Yield(k, doc) == IF Alone(k, doc).threw THEN <<>> ELSE Alone(k, doc).markers

Hits(doc) == {k \in 1..6 : Len(Yield(k, doc)) > 0}

Lowest(S) == CHOOSE k \in S : \A j \in S : k <= j

LocatorReturned == located.run /\ ~located.threw

\* out holds the markers of in, each once.
Rearranged(out, in) ==
    /\ Len(out) = Len(in)
    /\ \E p \in [1..Len(in) -> 1..Len(in)] :
           /\ \A i, j \in 1..Len(in) : i # j => p[i] # p[j]
           /\ \A i \in 1..Len(in) : out[i] = in[p[i]]

\* C1: the markers the locator returns all come from one strategy, the
\* lowest-numbered of 1..6 that yields a marker on the document; a later
\* strategy adds nothing once an earlier one has yielded, and the generic
\* search runs only when strategies 1-5 all yielded nothing.
C1_LowestStrategyOnly ==
    LocatorReturned =>
        /\ Rearranged(located.val, discovered)
        /\ IF Hits(xml.result) = {}
           THEN discovered = <<>> /\ strategy = NoStrategy
           ELSE /\ strategy = Lowest(Hits(xml.result))
                /\ discovered = Yield(Lowest(Hits(xml.result)), xml.result)

\* Structure 1 has supplied the markers of a document in which the Cues
\* structure and the generic search would have found markers too.
C1_Witness ==
    /\ pc = "done"
    /\ strategy = 1
    /\ Len(Yield(4, xml.result)) > 0
    /\ Len(Yield(6, xml.result)) > 0

\* x <= y as JavaScript compares numbers: false when either is NaN.
Leq(x, y) ==
    /\ ~IsNaN(x)
    /\ ~IsNaN(y)
    /\ \/ ~IsFinite(y)
       \/ IsFinite(x) /\ x.n * y.d <= y.n * x.d

\* out is in with equal times left in their order of discovery.
KeepsDiscoveryOrder(out, in) ==
    /\ Len(out) = Len(in)
    /\ \E p \in [1..Len(in) -> 1..Len(in)] :
           /\ \A i, j \in 1..Len(in) : i # j => p[i] # p[j]
           /\ \A i \in 1..Len(in) : out[i] = in[p[i]]
           /\ \A i, j \in 1..Len(in) :
                  (i < j /\ out[i].time = out[j].time) => p[i] < p[j]

\* C2: the sequence the locator returns is ascending by time (each time <=
\* the next) and markers of identical time keep their discovery order.
C2_SortedAndStable ==
    LocatorReturned =>
        /\ \A i \in 1..(Len(located.val) - 1) :
               Leq(located.val[i].time, located.val[i + 1].time)
        /\ KeepsDiscoveryOrder(located.val, discovered)

\* C3: the locator never raises on a parsed document (a null result, an
\* unknown shape, a partial match included); no match gives the empty
\* sequence.
C3_LocatorNeverRaises ==
    (xml.parses /\ located.run) =>
        /\ ~located.threw
        /\ (Hits(xml.result) = {} => located.val = <<>>)

\* A time rendered with six digits after the decimal point.
IsSixDecimals(t) ==
    /\ Len(t) >= FractionDigits + 2
    /\ t[Len(t) - FractionDigits] = "."
    /\ \A i \in 1..Len(t) : i # Len(t) - FractionDigits => IsDigit(t[i])

\* The text of the first n lines, each closed by a newline.
RECURSIVE LinesText(_, _)
LinesText(lines, n) ==
    IF n = 0 THEN <<>> ELSE LinesText(lines, n - 1) \o lines[n] \o <<"\n">>

\* C6: the output has one line per marker in the given order, each
\* <time>TAB<time>TAB<label> with the time in six decimals and the label
\* verbatim, and a newline after the last; no markers give one newline.
C6_LabelLines ==
    labels.run =>
        /\ ~labels.threw
        /\ \A i \in 1..Len(markerList) :
               IsSixDecimals(toFixed(markerList[i].time))
        /\ labels.val =
               IF Len(markerList) = 0 THEN <<"\n">>
               ELSE LinesText([i \in 1..Len(markerList) |->
                                  toFixed(markerList[i].time) \o <<"\t">>
                                      \o toFixed(markerList[i].time)
                                      \o <<"\t">> \o markerList[i].label.s],
                              Len(markerList))

\* C7: a conformance point with a time and no marker name is still emitted,
\* under its placeholder: the points "00:00:10.000" named Intro and "5.0"
\* unnamed give exactly [(5.0, "Marker 2"), (10.0, "Intro")].
C7_UnnamedPointEmitted ==
    (xml = Parsed(DocTwoPoints) /\ located.run) =>
        /\ ~located.threw
        /\ located.val = <<Marker(Int2Num(5), Placeholder(2)),
                           Marker(Int2Num(10), Str(Intro))>>

\* A document whose File holds nothing but the Cues element.
CuesDoc(kind, es) ==
    ConfDoc(FileEntry(<< <<"Cues", Arr(<<CuesElem(kind, Text48000, es)>>)>> >>))

\* The positions of the cues that have one, as numbers.
RECURSIVE Positions(_, _)
Positions(es, i) ==
    IF i > Len(es) THEN <<>>
    ELSE (IF es[i].time # Absent THEN <<parseFloat(es[i].time)>> ELSE <<>>)
             \o Positions(es, i + 1)

\* C8: every cue with a Position p gives a marker at p divided by the sample
\* rate, which is the samplerate attribute of Cues when it is there and 44100
\* when it is not, a Cues element without any attribute included; samplerate
\* 48000 and position 24000 give 0.5.
C8_CueTimeBySampleRate ==
    /\ \A kind \in CuesAttrKinds, es \in EntryLists \ {<<>>} :
           (xml = Parsed(CuesDoc(kind, es)) /\ located.run) =>
               /\ ~located.threw
               /\ Len(discovered) = Len(Positions(es, 1))
               /\ \A i \in 1..Len(discovered) :
                      discovered[i].time =
                          NumDiv(Positions(es, 1)[i],
                                 Int2Num(IF kind = "samplerate"
                                         THEN 48000 ELSE 44100))
    /\ (xml = Parsed(DocCue24000) /\ located.run) =>
           /\ ~located.threw
           /\ located.val = <<Marker(Frac(1, 2), Placeholder(1))>>
    /\ (xml = Parsed(DocCueNoAttrs) /\ located.run) =>
           /\ ~located.threw
           /\ located.val = <<Marker(Int2Num(1), Placeholder(1))>>

\* convertXmlToLabels has returned or thrown.
ConversionEnded == pc \in {"written", "failed"}

\* C9: convertXmlToLabels fails, and writes no output file, when the text is
\* not well-formed XML; when the document parses and no strategy finds a
\* marker it does not fail, writes an output file holding just the newline
\* and returns its path.
C9_MalformedFailsEmptySucceeds ==
    /\ ~xml.parses =>
           /\ outputsDir = {}
           /\ ConversionEnded => pc = "failed"
    /\ (xml.parses /\ Hits(xml.result) = {} /\ ConversionEnded) =>
           /\ pc = "written"
           /\ outputsDir =
                  {[path |-> <<"a", "_", "m", "a", "r", "k", "e", "r", "s",
                               ".", "t", "x", "t">>,
                    content |-> <<"\n">>]}

\* The conversions that succeeded, by request and place in its results.
Conversions ==
    {c \in (1..MaxRequests) \X (1..(2 * MaxFiles)) :
        /\ c[2] <= Len(reqs[c[1]].results)
        /\ reqs[c[1]].results[c[2]].ok}

ResultOf(c) == reqs[c[1]].results[c[2]]

\* C10: every successful conversion's output is stored under a name of its
\* own: two conversions whose original names share a base name are stored
\* under different paths, neither overwrites the other, and each result's
\* downloadUrl retrieves the output of its own input.
C10_UniqueOutputNames ==
    /\ \A a, b \in Conversions :
           (a # b /\ baseName(ResultOf(a).originalFile)
                         = baseName(ResultOf(b).originalFile))
               => ResultOf(a).labelsFile # ResultOf(b).labelsFile
    /\ \A a \in Conversions :
           /\ ExistsSync(outputsDir, ResultOf(a).labelsFile)
           /\ ReadFileSync(outputsDir, ResultOf(a).labelsFile)
                  = ResultOf(a).content

\* The response of a request has been sent.
Finished(r) == reqs[r].phase \in {"responded", "error500"}

\* C11: each file of a batch is processed independently: whatever fails for
\* one file, the remaining files are still processed, and the response's
\* results hold exactly one entry per uploaded file, in upload order.
C11_OneEntryPerFile ==
    \A r \in 1..MaxRequests :
        Finished(r) =>
            /\ reqs[r].phase = "responded"
            /\ Len(reqs[r].results) = Len(reqs[r].files)
            /\ \A i \in 1..Len(reqs[r].files) :
                   reqs[r].results[i].originalFile
                       = reqs[r].files[i].originalname

\* The handler of request r leaves the callback of execFile with a new entry
\* in results.
ToolOutcomeReported(r) ==
    /\ reqs[r].phase = "exited"
    /\ reqs'[r].phase # "exited"
    /\ Len(reqs'[r].results) = Len(reqs[r].results) + 1

\* The error shown in the entry just pushed for request r.
ReportedError(r) == reqs'[r].results[Len(reqs'[r].results)].error

\* C12: a tool that ran successfully and produced no XML file is reported
\* as NO_BWF_DATA, a tool that cannot be invoked at all as another error, so
\* 'This file does not contain BWF markers' is shown only in the first case.
C12_NoDataVersusToolUnavailable ==
    [][\A r \in 1..MaxRequests :
           /\ (reqs[r].phase = "exited" /\ reqs[r].toolError = "none"
                   /\ ~ExistsSync(tempDir, reqs[r].xmlFile)
                   /\ reqs'[r].phase # "exited") =>
                  /\ ToolOutcomeReported(r)
                  /\ ReportedError(r) = "This file does not contain BWF markers"
           /\ (reqs[r].phase = "exited" /\ reqs[r].toolError = "enoent"
                   /\ reqs'[r].phase # "exited") =>
                  /\ ToolOutcomeReported(r)
                  /\ ReportedError(r) # "This file does not contain BWF markers"
      ]_vars

\* The handler of request r has caught the failure of a conversion and
\* pushed its entry.
ConversionFailureReported(r) ==
    /\ pc = "failed"
    /\ reqs[r].phase = "converting"
    /\ reqs'[r].phase # "converting"

\* C15: a file whose metadata XML fails to parse ('XML parsing failed') is
\* reported as 'File contains invalid BWF data'; 'File processed but no
\* markers were found' is never reported for a parse failure.
C15_ParseFailureMessage ==
    [][\A r \in 1..MaxRequests :
           (ConversionFailureReported(r) /\ ~xml.parses) =>
               /\ Len(reqs'[r].results) = Len(reqs[r].results) + 1
               /\ ReportedError(r) = "File contains invalid BWF data"
               /\ ReportedError(r) # "File processed but no markers were found"
      ]_vars

\* The step that sends the response of request r.
Finishes(r) == ~Finished(r) /\ reqs'[r].phase \in {"responded", "error500"}

\* C16: once the response of a request is sent, no temporary artifact of
\* the request is left on disk: every uploaded WAV file and every metadata
\* XML file extractBwfMetadata made for the batch has been deleted, whether
\* the conversion succeeded or failed.
C16_NoTemporaryArtifacts ==
    [][\A r \in 1..MaxRequests :
           Finishes(r) =>
               /\ \A i \in 1..Len(reqs[r].files) :
                      ~ExistsSync(uploadsDir', reqs[r].files[i].path)
               /\ \A path \in reqs'[r].xmlFiles : ~ExistsSync(tempDir', path)
      ]_vars

\* <cuesheet><cue><time>..</time><name>..</name></cue>...</cuesheet>: every
\* cue is a mapping, an element of the sequence under the key cue, with its
\* time and its name at its own level.
GenericChildDoc(es) ==
    Root("cuesheet",
         ListElem("cue",
             [i \in 1..Len(es) |->
                 ChildElem(<< <<"time", es[i].time>>,
                              <<"name", es[i].name>> >>)]))

\* The same cues with their time and name in the attribute bag.
GenericAttrDoc(es) ==
    Root("cuesheet",
         ListElem("cue",
             [i \in 1..Len(es) |->
                 AttrElem(<< <<"time", es[i].time>>,
                             <<"name", es[i].name>> >>)]))

\* One marker for every entry that has a time, in document order: its time
\* as the time parser reads it, its name or else the placeholder.
RECURSIVE EntryMarkers(_, _, _)
EntryMarkers(es, i, markers) ==
    IF i > Len(es) THEN markers
    ELSE EntryMarkers(es, i + 1,
             IF es[i].time = Absent THEN markers
             ELSE Append(markers,
                      Marker(parseTimeToSeconds(Str(es[i].time)).val,
                             IF es[i].name = Absent
                             THEN Placeholder(Len(markers) + 1)
                             ELSE Str(es[i].name))))

\* C13: the generic search reaches every mapping of the document, the
\* mappings that are elements of sequences included, and every mapping with
\* a time-like field of its own gives a marker: its time is the time
\* parser's result on that field, its label the placeholder when it has no
\* label-like field.
C13_GenericSearchReachesSequenceElements ==
    \A es \in EntryLists :
        (xml = Parsed(GenericChildDoc(es)) /\ located.run) =>
            /\ ~located.threw
            /\ strategy \in {NoStrategy, 6}
            /\ discovered = EntryMarkers(es, 1, <<>>)

\* The documents of strategies 2, 3 and 5 with the entries es.
BwfDataDoc(es) ==
    Root("BWF_data",
         Obj(<< <<"markers",
                  Arr(<<ListElem("marker",
                          [i \in 1..Len(es) |->
                              ChildElem(<< <<"position", es[i].time>>,
                                           <<"name", es[i].name>> >>)])>>)>> >>))
MarkersDoc(es) ==
    Root("markers",
         ListElem("marker",
             [i \in 1..Len(es) |->
                 AttrElem(<< <<"position", es[i].time>>,
                             <<"name", es[i].name>> >>)]))
CoreDoc(es) == ConfDoc(FileEntry(CoreEntry(es)))

\* The label "Marker n", spelled out.
NumberedLabel(n) == Str(<<"M", "a", "r", "k", "e", "r", " ">> \o NatText(n))

\* The labels of the entries that have a time, in document order: the name,
\* or else the number of the marker among those emitted.
RECURSIVE EntryLabels(_, _, _)
EntryLabels(es, i, out) ==
    IF i > Len(es) THEN out
    ELSE EntryLabels(es, i + 1,
             IF es[i].time = Absent THEN out
             ELSE Append(out, IF es[i].name = Absent
                              THEN NumberedLabel(Len(out) + 1)
                              ELSE Str(es[i].name)))

LabelsOf(markers) == [i \in 1..Len(markers) |-> markers[i].label]

\* The documents that hold entries in the form of strategy 2, 3, 4, 5 or of
\* the generic search, each with the labels its entries are to get.
LabelledDocs ==
    UNION {{<<doc, EntryLabels(es, 1, <<>>)>> :
               doc \in {BwfDataDoc(es), MarkersDoc(es), CoreDoc(es),
                        GenericAttrDoc(es)}
                           \cup (IF es = <<>> THEN {}
                                 ELSE {CuesDoc(kind, es) : kind \in CuesAttrKinds})}
              : es \in EntryLists}
EntryDocs == {p[1] : p \in LabelledDocs}

\* C14: in every strategy an accepted entry without a name is labelled
\* "Marker n", n being one more than the number of markers emitted before
\* it, and the sort by time changes no label: the markers returned are the
\* markers discovered, rearranged.
C14_PlaceholderNumbering ==
    LocatorReturned =>
        /\ Rearranged(located.val, discovered)
        /\ \A i \in 1..Len(discovered) :
               discovered[i].label \notin {Str(Intro), Str(Outro)} =>
                   discovered[i].label = NumberedLabel(i)
        /\ xml.result \in EntryDocs =>
               <<xml.result, LabelsOf(discovered)>> \in LabelledDocs

\* The unnamed second marker of a document sorts first and is still
\* "Marker 2".
C14_Witness ==
    /\ pc = "done"
    /\ xml = Parsed(MarkersDoc(<<Entry(Text10, Intro), Entry(Text5, Absent)>>))
    /\ strategy = 3
    /\ located.val = <<Marker(Int2Num(5), NumberedLabel(2)),
                       Marker(Int2Num(10), Str(Intro))>>

====
